---------------------------- MODULE Spec2Model ----------------------------
(***************************************************************************)
(* Validation-and-dispatch pipeline of secure-data-orchestration.          *)
(*                                                                         *)
(* src/src/lambda/handler.py      : lambda_handler and its helpers (Spec,  *)
(*                                  and SpecV for the validators alone).   *)
(* src/src/container/processor.py : process_data_package, one run (SpecP)  *)
(*                                  and concurrent runs (SpecC).           *)
(*                                                                         *)
(* Strings that the code inspects character by character (object keys) are *)
(* sequences of one-character strings.  Python dicts are functions whose   *)
(* DOMAIN is the set of keys present.  The external services (S3, ECS,     *)
(* DynamoDB) answer nondeterministically.                                  *)
(***************************************************************************)
EXTENDS Integers, Sequences, FiniteSets, TLC

VARIABLES
    ALLOWED_ORGANIZATION_IDS, \* handler.py:35, read from the environment at import
    batch,            \* event["Records"]: the notification being handled
    idx,              \* position of the for loop in batch (1-based)
    pc,               \* control point of lambda_handler
    bucket,           \* local: the record's bucket
    key,              \* local: the record's key, URL-decoded
    organization_id,  \* local: "UNKNOWN" until validate_organization_id returns
    head_response,    \* local: head_object response
    tags,             \* local: the object's tags
    file_metadata,    \* local: result of validate_file_requirements
    task_arn,         \* local: result of trigger_processing_task
    exc,              \* str(e) of the exception being handled
    results,          \* local: the aggregated per-record results
    audit,            \* the audit table: the items put, in the order written
    log,              \* the messages logged at ERROR level, in order, by
                      \* lambda_handler or by the processor's runs
    hist,             \* history: every call to S3, ECS and DynamoDB and every
                      \* result appended, tagged with the record's position
    v_in,             \* validator harness: the input under test
    v_out,            \* validator harness: the outcome computed for v_in
    now,              \* processor: the UTC clock, in ticks of its resolution
    runs,             \* processor: the runs of process_data_package, each with
                      \* its environment, control point and pending item
    table,            \* processor: the audit table, primary key -> item
    calls             \* processor: history of the calls to DynamoDB and S3

locals == <<bucket, key, organization_id, head_response, tags, file_metadata, task_arn, exc>>
hvars  == <<batch, idx, pc, locals, results, audit, log, hist>>
hrest  == <<batch, idx, pc, locals, results, audit, hist>>   \* hvars but log
vvars  == <<v_in, v_out>>
pvars  == <<now, runs, table, calls>>
vars   == <<ALLOWED_ORGANIZATION_IDS, hvars, vvars, pvars>>

-----------------------------------------------------------------------------
(* Python values *)

None == "<None>"

\* dict.get(k): the value, or None when the key is absent
Get(d, k) == IF k \in DOMAIN d THEN d[k] ELSE None

\* dict.get(k, default)
GetOr(d, k, default) == IF k \in DOMAIN d THEN d[k] ELSE default

\* Python truthiness of an optional string
Truthy(v) == v # None /\ v # ""

\* a or b
Or(a, b) == IF Truthy(a) THEN a ELSE b

\* all functions from a subset of K to V: the dicts with keys in K
Dicts(K, V) == UNION { [D -> V] : D \in SUBSET K }

-----------------------------------------------------------------------------
(* Strings as character sequences *)

\* str.lower() on one character (the letters that occur in the keys used)
LowerChar(c) ==
    CASE c = "A" -> "a"
      [] c = "Z" -> "z"
      [] c = "I" -> "i"
      [] c = "P" -> "p"
      [] c = "T" -> "t"
      [] c = "X" -> "x"
      [] OTHER   -> c

\* str.lower()
Lower(s) == [i \in 1..Len(s) |-> LowerChar(s[i])]

\* str.endswith(suffix)
EndsWith(s, suffix) ==
    /\ Len(s) >= Len(suffix)
    /\ SubSeq(s, Len(s) - Len(suffix) + 1, Len(s)) = suffix

DotZip == <<".", "z", "i", "p">>

HexDigits == {"0", "1", "2", "3", "4", "5", "6", "7", "8", "9",
              "a", "b", "c", "d", "e", "f", "A", "B", "C", "D", "E", "F"}

\* the character a %XX escape stands for (the escapes that occur in the keys used)
HexChar(h1, h2) ==
    CASE h1 = "2" /\ h2 \in {"E", "e"} -> "."
      [] h1 = "2" /\ h2 \in {"B", "b"} -> "+"
      [] h1 = "2" /\ h2 = "0"          -> " "
      [] h1 = "2" /\ h2 = "5"          -> "%"
      [] OTHER                         -> "?"

\* urllib.parse.unquote: %XX becomes its character, a % not followed by two
\* hex digits is kept as it is
RECURSIVE unquote(_)
unquote(s) ==
    IF s = <<>> THEN <<>>
    ELSE IF /\ s[1] = "%"
            /\ Len(s) >= 3
            /\ s[2] \in HexDigits
            /\ s[3] \in HexDigits
         THEN <<HexChar(s[2], s[3])>> \o unquote(SubSeq(s, 4, Len(s)))
         ELSE <<s[1]>> \o unquote(Tail(s))

\* urllib.parse.unquote_plus: '+' becomes a space, then unquote
unquote_plus(s) == unquote([i \in 1..Len(s) |-> IF s[i] = "+" THEN " " ELSE s[i]])

-----------------------------------------------------------------------------
(* Exceptions: a call either returns a value or raises *)

Return(v)      == [raised |-> FALSE, value |-> v]
Raise(cls, m)  == [raised |-> TRUE, cls |-> cls, msg |-> m]

\* the messages of the ValidationErrors (without their interpolated arguments)
MsgMissingOrg  == "Missing organization-id tag or metadata"
MsgInvalidOrg  == "Invalid organization-id"
MsgExtension   == "Invalid file extension"
MsgTooLarge    == "File too large"
MsgEmpty       == "File is empty"

max_size == 1024 * 1024 * 1024

\* a slip that reads the user metadata only
validate_organization_id_TagsIgnored(t, m) ==
    LET org_id == Or(Get(m, "organization-id"), Get(m, "organizationid"))
    IN  IF ~Truthy(org_id) THEN Raise("ValidationError", MsgMissingOrg)
        ELSE IF org_id \notin ALLOWED_ORGANIZATION_IDS
             THEN Raise("ValidationError", MsgInvalidOrg)
             ELSE Return(org_id)

\* lines 141-154
validate_organization_id(t, m) ==
    LET org_tag == Or(Get(t, "organization-id"), Get(t, "OrganizationId"))
        org_id  == IF ~Truthy(org_tag)
                   THEN Or(Get(m, "organization-id"), Get(m, "organizationid"))
                   ELSE org_tag
    IN  IF ~Truthy(org_id) THEN Raise("ValidationError", MsgMissingOrg)
        ELSE IF org_id \notin ALLOWED_ORGANIZATION_IDS
             THEN Raise("ValidationError", MsgInvalidOrg)
             ELSE Return(org_id)

\* a slip that tests the size before the extension
validate_file_requirements_SizeFirst(h, k) ==
    LET file_size    == GetOr(h, "ContentLength", 0)
        content_type == GetOr(h, "ContentType", "")
    IN  IF file_size > max_size THEN Raise("ValidationError", MsgTooLarge)
        ELSE IF file_size = 0 THEN Raise("ValidationError", MsgEmpty)
        ELSE IF ~EndsWith(Lower(k), DotZip)
             THEN Raise("ValidationError", MsgExtension)
        ELSE Return([file_size |-> file_size, content_type |-> content_type])

\* a slip that leaves out the test for an empty file
validate_file_requirements_NoEmptyCheck(h, k) ==
    LET file_size    == GetOr(h, "ContentLength", 0)
        content_type == GetOr(h, "ContentType", "")
    IN  IF ~EndsWith(Lower(k), DotZip)
             THEN Raise("ValidationError", MsgExtension)
        ELSE IF file_size > max_size THEN Raise("ValidationError", MsgTooLarge)
        ELSE Return([file_size |-> file_size, content_type |-> content_type])

\* a slip that rejects a file of exactly the maximum size
validate_file_requirements_MaxExclusive(h, k) ==
    LET file_size    == GetOr(h, "ContentLength", 0)
        content_type == GetOr(h, "ContentType", "")
    IN  IF ~EndsWith(Lower(k), DotZip)
             THEN Raise("ValidationError", MsgExtension)
        ELSE IF file_size >= max_size THEN Raise("ValidationError", MsgTooLarge)
        ELSE IF file_size = 0 THEN Raise("ValidationError", MsgEmpty)
        ELSE Return([file_size |-> file_size, content_type |-> content_type])

\* lines 171-191.  last_modified is copied from the response and not inspected.
validate_file_requirements(h, k) ==
    LET file_size    == GetOr(h, "ContentLength", 0)
        content_type == GetOr(h, "ContentType", "")
    IN  IF ~EndsWith(Lower(k), DotZip)
             THEN Raise("ValidationError", MsgExtension)
        ELSE IF file_size > max_size THEN Raise("ValidationError", MsgTooLarge)
        ELSE IF file_size = 0 THEN Raise("ValidationError", MsgEmpty)
        ELSE Return([file_size |-> file_size, content_type |-> content_type])

\* a slip that assigns organization_id only after both validations
validate_AssignedLast(h, t, k) ==
    LET o == validate_organization_id(t, GetOr(h, "Metadata", <<>>))
    IN  IF o.raised
        THEN [passed |-> FALSE, org |-> "UNKNOWN", error |-> o.msg,
              fm |-> None]
        ELSE LET f == validate_file_requirements(h, k)
             IN  IF f.raised
                 THEN [passed |-> FALSE, org |-> "UNKNOWN",
                       error |-> f.msg, fm |-> None]
                 ELSE [passed |-> TRUE, org |-> o.value,
                       error |-> None, fm |-> f.value]

\* lambda_handler lines 306-311: the two validations in sequence.  The local
\* organization_id is assigned only when validate_organization_id returns.
validate(h, t, k) ==
    LET o == validate_organization_id(t, GetOr(h, "Metadata", <<>>))
    IN  IF o.raised
        THEN [passed |-> FALSE, org |-> "UNKNOWN", error |-> o.msg,
              fm |-> None]
        ELSE LET f == validate_file_requirements(h, k)
             IN  IF f.raised
                 THEN [passed |-> FALSE, org |-> o.value,
                       error |-> f.msg, fm |-> None]
                 ELSE [passed |-> TRUE, org |-> o.value,
                       error |-> None, fm |-> f.value]

-----------------------------------------------------------------------------
(* The notification and the environment of one lambda_handler invocation *)

MaxBatch == 2

\* S3 URL-encodes the keys it notifies: "a%2Ezip" stands for "a.zip"
RawKeys == { <<"a", "%", "2", "E", "z", "i", "p">> }

\* the records a notification can hold: well-formed ones, one without a
\* bucket name and one without a key (`not x` holds of None and of "")
Records ==
    { [bucket |-> "ingress", key |-> k] : k \in RawKeys }
    \cup { [bucket |-> "", key |-> <<"a", ".", "t", "x", "t">>],
           [bucket |-> "ingress", key |-> <<>>] }

Batches == UNION { [1..n -> Records] : n \in 0..MaxBatch }

\* what S3 may hold under a key: head_object response and tag set
Object(size, tag_org, meta_org) ==
    [head_response |->
        [ContentLength |-> size,
         Metadata |-> IF meta_org = None THEN <<>>
                      ELSE [x \in {"organization-id"} |-> meta_org]],
     tags |-> IF tag_org = None THEN <<>>
              ELSE [x \in {"organization-id"} |-> tag_org]]

Objects ==
    { Object(500, "evil", "acme"),
      Object(0, "acme", None),
      Object(0, None, None) }

\* answers of ecs.run_task: a started task, a response without tasks, a ClientError
RunTaskAnswers == {"arn:task/1", "NoTasks", "ClientError"}

-----------------------------------------------------------------------------
(* record_audit_event *)

\* the item put in the table.  timestamp and event_id are fresh values of the
\* clock and of uuid4; they are not represented.
AuditItem(org, event_type, file_key, details, status) ==
    [pk         |-> <<"ORG#", org>>,
     event_type |-> event_type,
     file_key   |-> file_key,
     status     |-> status,
     details    |-> details]

\* answers of table.put_item: the item is stored, a ClientError, or an exception
\* that is no ClientError (a connection error or timeout; a parameter
\* validation error and the ValueError of Table(None) behave the same way)
AuditPutAnswers == {"ok", "ClientError", "EndpointConnectionError"}

PutItemError(answer) ==
    IF answer = "ClientError" THEN "ClientError: put_item"
    ELSE "EndpointConnectionError: put_item"

\* record_audit_event from the state s = [audit, hist, log]; answer is the
\* answer of put_item.  The result holds the new audit, hist and log and whether
\* the call raised.  Only a ClientError is caught (line 96), logged and raised
\* again; any other exception leaves the function without the log line.
record_audit_event(s, org, event_type, file_key, details, status, answer) ==
    LET item == AuditItem(org, event_type, file_key, details, status)
        call == [op |-> "put_item", rec |-> idx, ok |-> answer = "ok",
                 answer |-> answer, item |-> item]
    IN  IF answer = "ok"
        THEN [audit |-> Append(s.audit, item), hist |-> Append(s.hist, call),
              log |-> s.log, raised |-> FALSE, cls |-> None, msg |-> None]
        ELSE [audit |-> s.audit, hist |-> Append(s.hist, call),
              log |-> IF answer = "ClientError"
                      THEN Append(s.log, "Failed to record audit event")
                      ELSE s.log,
              raised |-> TRUE, cls |-> answer, msg |-> PutItemError(answer)]

Store == [audit |-> audit, hist |-> hist, log |-> log]

\* the assignment of a record_audit_event result to the variables
StoreBecomes(r) == audit' = r.audit /\ hist' = r.hist /\ log' = r.log

-----------------------------------------------------------------------------
(* lambda_handler *)

\* no processor runs
ProcessorIdle == now = 0 /\ runs = <<>> /\ table = <<>> /\ calls = <<>>

HandlerIdle ==
    /\ batch = <<>> /\ idx = 1 /\ pc = "idle"
    /\ bucket = None /\ key = <<>> /\ organization_id = None
    /\ head_response = <<>> /\ tags = <<>> /\ file_metadata = None
    /\ task_arn = None /\ exc = None
    /\ results = <<>> /\ audit = <<>> /\ log = <<>> /\ hist = <<>>

Init ==
    /\ ALLOWED_ORGANIZATION_IDS = {"acme"}
    /\ batch \in Batches
    /\ idx = 1 /\ pc = "for"
    /\ bucket = None /\ key = <<>> /\ organization_id = None
    /\ head_response = <<>> /\ tags = <<>> /\ file_metadata = None
    /\ task_arn = None /\ exc = None
    /\ results = <<>> /\ audit = <<>> /\ log = <<>> /\ hist = <<>>
    /\ v_in = None /\ v_out = [applied |-> FALSE]
    /\ ProcessorIdle

\* line 288
InitialOrganizationId == "UNKNOWN"

\* lines 347 and 369: the except clause that handles an exception of class cls
\* raised in the try body
ExceptClause(cls) ==
    IF cls = "ValidationError" THEN "except_ValidationError" ELSE "except_Exception"

Malformed(record) == ~Truthy(record.bucket) \/ record.key = <<>>

\* the record is over: its locals are dead until the next iteration assigns
\* them, and are cleared here
NextRecord ==
    /\ idx' = idx + 1 /\ pc' = "for"
    /\ bucket' = None /\ key' = <<>> /\ organization_id' = None
    /\ head_response' = <<>> /\ tags' = <<>> /\ file_metadata' = None
    /\ task_arn' = None /\ exc' = None

\* line 272, loop exhausted; lines 390-396: return statusCode 200
ReturnResponse ==
    /\ pc = "for" /\ idx > Len(batch)
    /\ pc' = "returned"
    /\ UNCHANGED <<ALLOWED_ORGANIZATION_IDS, batch, idx, locals, results, audit, log, hist, vvars, pvars>>

\* lines 278-280: a record without bucket or key is skipped
SkipRecord ==
    /\ pc = "for" /\ idx <= Len(batch)
    /\ Malformed(batch[idx])
    /\ idx' = idx + 1
    /\ UNCHANGED <<ALLOWED_ORGANIZATION_IDS, batch, pc, locals, results, audit, log, hist, vvars, pvars>>

\* lines 274-288: bucket and decoded key, organization_id = "UNKNOWN"
BeginRecord ==
    /\ pc = "for" /\ idx <= Len(batch)
    /\ ~Malformed(batch[idx])
    /\ bucket' = batch[idx].bucket
    /\ key' = unquote_plus(batch[idx].key)
    /\ organization_id' = InitialOrganizationId
    /\ pc' = "get_object_metadata"
    /\ UNCHANGED <<ALLOWED_ORGANIZATION_IDS, batch, idx, head_response, tags, file_metadata,
                   task_arn, exc, results, audit, log, hist, vvars, pvars>>

\* the history entry of a call to S3; object is what a successful fetch
\* returned: the head_response of the first request, the tags of the second
S3Call(op, ok) ==
    [op |-> op, rec |-> idx, ok |-> ok, bucket |-> bucket, key |-> key, object |-> None]

\* line 292 and lines 101-120: head_object, then get_object_tagging; a
\* ClientError of either is logged and raised.  They are two requests: the
\* object may be replaced between them, so the second may answer for another
\* object than the first.
GetObjectMetadata ==
    /\ pc = "get_object_metadata"
    /\ \/ /\ hist' = Append(hist, S3Call("head_object", FALSE))
          /\ log' = Append(log, "Failed to get object metadata")
          /\ exc' = "ClientError: head_object"
          /\ pc' = ExceptClause("ClientError")
          /\ UNCHANGED <<head_response, tags>>
       \/ /\ hist' = hist \o <<S3Call("head_object", TRUE), S3Call("get_object_tagging", FALSE)>>
          /\ log' = Append(log, "Failed to get object metadata")
          /\ exc' = "ClientError: get_object_tagging"
          /\ pc' = ExceptClause("ClientError")
          /\ UNCHANGED <<head_response, tags>>
       \/ \E o1 \in Objects, o2 \in Objects :
          /\ hist' = hist \o <<S3Call("head_object", TRUE),
                              [S3Call("get_object_tagging", TRUE) EXCEPT
                                 !.object = [head_response |-> o1.head_response,
                                             tags |-> o2.tags]]>>
          /\ head_response' = o1.head_response
          /\ tags' = o2.tags
          /\ pc' = "upload"
          /\ UNCHANGED <<log, exc>>
    /\ UNCHANGED <<ALLOWED_ORGANIZATION_IDS, batch, idx, bucket, key, organization_id,
                   file_metadata, task_arn, results, audit, vvars, pvars>>

\* a slip that forgets the UPLOAD event
RecordUpload_Forgotten ==
    /\ pc = "upload"
    /\ pc' = "validate"
    /\ UNCHANGED <<ALLOWED_ORGANIZATION_IDS, batch, idx, locals, results, audit, log, hist, vvars, pvars>>

\* lines 295-304: the UPLOAD event, under "PENDING"
RecordUpload ==
    /\ pc = "upload"
    /\ \E answer \in AuditPutAnswers :
         LET r == record_audit_event(Store, "PENDING", "UPLOAD", key,
                      [bucket |-> bucket,
                       size |-> GetOr(head_response, "ContentLength", 0),
                       tags |-> tags], "SUCCESS", answer)
         IN  /\ StoreBecomes(r)
             /\ IF r.raised
                THEN pc' = ExceptClause(r.cls) /\ exc' = r.msg
                ELSE pc' = "validate" /\ exc' = exc
    /\ UNCHANGED <<ALLOWED_ORGANIZATION_IDS, batch, idx, bucket, key, organization_id,
                   head_response, tags, file_metadata, task_arn, results, vvars, pvars>>

\* lines 306-312: validate_organization_id, then validate_file_requirements
Validate ==
    /\ pc = "validate"
    /\ LET v == validate(head_response, tags, key)
       IN  /\ organization_id' = v.org
           /\ IF v.passed
              THEN file_metadata' = v.fm /\ pc' = "validation" /\ exc' = exc
              ELSE file_metadata' = file_metadata /\ pc' = ExceptClause("ValidationError")
                   /\ exc' = v.error
    /\ UNCHANGED <<ALLOWED_ORGANIZATION_IDS, batch, idx, bucket, key, head_response, tags,
                   task_arn, results, audit, log, hist, vvars, pvars>>

\* lines 315-324: the VALIDATION event of a passed validation
RecordValidation ==
    /\ pc = "validation"
    /\ \E answer \in AuditPutAnswers :
         LET r == record_audit_event(Store, organization_id, "VALIDATION", key,
                      [bucket |-> bucket, file_metadata |-> file_metadata,
                       validation |-> "PASSED"], "SUCCESS", answer)
         IN  /\ StoreBecomes(r)
             /\ IF r.raised
                THEN pc' = ExceptClause(r.cls) /\ exc' = r.msg
                ELSE pc' = "trigger_processing_task" /\ exc' = exc
    /\ UNCHANGED <<ALLOWED_ORGANIZATION_IDS, batch, idx, bucket, key, organization_id,
                   head_response, tags, file_metadata, task_arn, results, vvars, pvars>>

\* Python's str() of a non-negative int: its decimal digits
Digit(d) == CASE d = 0 -> "0" [] d = 1 -> "1" [] d = 2 -> "2" [] d = 3 -> "3"
              [] d = 4 -> "4" [] d = 5 -> "5" [] d = 6 -> "6" [] d = 7 -> "7"
              [] d = 8 -> "8" [] d = 9 -> "9"

RECURSIVE str(_)
str(n) == IF n < 10 THEN <<Digit(n)>> ELSE Append(str(n \div 10), Digit(n % 10))

\* a slip that passes the task the key as it came in the notification
TaskEnvironment_RawKey ==
    [S3_BUCKET |-> bucket, S3_KEY |-> batch[idx].key,
     ORGANIZATION_ID |-> organization_id,
     FILE_SIZE |-> str(file_metadata.file_size)]

\* the four environment overrides of the task, lines 229-232
TaskEnvironment ==
    [S3_BUCKET |-> bucket, S3_KEY |-> key, ORGANIZATION_ID |-> organization_id,
     FILE_SIZE |-> str(file_metadata.file_size)]

RunTaskCall(answer) ==
    [op |-> "run_task", rec |-> idx, ok |-> answer \notin {"NoTasks", "ClientError"},
     answer |-> answer, environment |-> TaskEnvironment]

\* lines 243-254: the task ARN of the response, or an exception when run_task
\* raised a ClientError or returned no task
trigger_processing_task(answer) ==
    IF answer = "ClientError" THEN Raise("ClientError", "ClientError: run_task")
    ELSE IF answer = "NoTasks" THEN Raise("Exception", "Failed to start task")
    ELSE Return(answer)

\* a slip that calls run_task again when the response holds no task
TriggerProcessingTask_Retry ==
    /\ pc = "trigger_processing_task"
    /\ \E answer \in RunTaskAnswers :
         LET r == trigger_processing_task(answer)
         IN  /\ hist' = Append(hist, RunTaskCall(answer))
             /\ log' = IF r.raised /\ r.cls = "ClientError"
                       THEN Append(log, "Failed to trigger ECS task") ELSE log
             /\ IF answer = "NoTasks"
                THEN pc' = pc /\ exc' = exc /\ task_arn' = task_arn
                ELSE IF r.raised
                THEN pc' = ExceptClause(r.cls) /\ exc' = r.msg /\ task_arn' = task_arn
                ELSE pc' = "processing_start" /\ exc' = exc /\ task_arn' = r.value
    /\ Len(hist) < 12
    /\ UNCHANGED <<ALLOWED_ORGANIZATION_IDS, batch, idx, bucket, key, organization_id,
                   head_response, tags, file_metadata, results, audit, vvars, pvars>>

\* line 327 and lines 212-254
TriggerProcessingTask ==
    /\ pc = "trigger_processing_task"
    /\ \E answer \in RunTaskAnswers :
         LET r == trigger_processing_task(answer)
         IN  /\ hist' = Append(hist, RunTaskCall(answer))
             /\ log' = IF r.raised /\ r.cls = "ClientError"
                       THEN Append(log, "Failed to trigger ECS task") ELSE log
             /\ IF r.raised
                THEN pc' = ExceptClause(r.cls) /\ exc' = r.msg /\ task_arn' = task_arn
                ELSE pc' = "processing_start" /\ exc' = exc /\ task_arn' = r.value
    /\ UNCHANGED <<ALLOWED_ORGANIZATION_IDS, batch, idx, bucket, key, organization_id,
                   head_response, tags, file_metadata, results, audit, vvars, pvars>>

ResultEntry(result) == [op |-> "result", rec |-> idx, result |-> result]

\* lines 330-345: the PROCESSING_START event, then the PROCESSING_STARTED result
RecordProcessingStart ==
    /\ pc = "processing_start"
    /\ \E answer \in AuditPutAnswers :
         LET r == record_audit_event(Store, organization_id, "PROCESSING_START", key,
                      [task_arn |-> task_arn], "SUCCESS", answer)
             result == [file |-> key, organization_id |-> organization_id,
                        status |-> "PROCESSING_STARTED", task_arn |-> task_arn]
         IN  /\ audit' = r.audit /\ log' = r.log
             /\ IF r.raised
                THEN /\ pc' = ExceptClause(r.cls) /\ exc' = r.msg
                     /\ hist' = r.hist
                     /\ UNCHANGED <<idx, bucket, key, organization_id, head_response, tags,
                                    file_metadata, task_arn, results>>
                ELSE /\ results' = Append(results, result)
                     /\ hist' = Append(r.hist, ResultEntry(result))
                     /\ NextRecord
    /\ UNCHANGED <<ALLOWED_ORGANIZATION_IDS, batch, vvars, pvars>>

\* a slip that reports the failed validation without auditing it
HandleValidationError_NoAudit ==
    /\ pc = "except_ValidationError"
    /\ LET result == [file |-> key, status |-> "VALIDATION_FAILED", error |-> exc]
       IN  /\ results' = Append(results, result)
           /\ hist' = Append(hist, [op |-> "result", rec |-> idx, result |-> result])
           /\ idx' = idx + 1 /\ pc' = "for"
           /\ bucket' = None /\ key' = <<>> /\ organization_id' = None
           /\ head_response' = <<>> /\ tags' = <<>> /\ file_metadata' = None
           /\ task_arn' = None /\ exc' = None
    /\ UNCHANGED <<ALLOWED_ORGANIZATION_IDS, batch, audit, log, vvars, pvars>>

\* lines 347-367: the VALIDATION event of a failed validation, then the
\* VALIDATION_FAILED result.  An exception of record_audit_event raised here is
\* inside an except clause: no handler of this try statement catches it, and it
\* leaves lambda_handler.
HandleValidationError ==
    /\ pc = "except_ValidationError"
    /\ \E answer \in AuditPutAnswers :
         LET r == record_audit_event(Store, organization_id, "VALIDATION", key,
                      [bucket |-> bucket, error |-> exc, validation |-> "FAILED"],
                      "FAILURE", answer)
             result == [file |-> key, status |-> "VALIDATION_FAILED", error |-> exc]
         IN  /\ audit' = r.audit /\ log' = r.log
             /\ IF r.raised
                THEN /\ pc' = "raised" /\ exc' = r.msg
                     /\ hist' = r.hist
                     /\ UNCHANGED <<idx, bucket, key, organization_id, head_response, tags,
                                    file_metadata, task_arn, results>>
                ELSE /\ results' = Append(results, result)
                     /\ hist' = Append(r.hist, ResultEntry(result))
                     /\ NextRecord
    /\ UNCHANGED <<ALLOWED_ORGANIZATION_IDS, batch, vvars, pvars>>

\* lines 369-388: the error is logged, the ERROR event recorded, then the ERROR
\* result.  As above, an exception of record_audit_event leaves lambda_handler.
HandleException ==
    /\ pc = "except_Exception"
    /\ \E answer \in AuditPutAnswers :
         LET r == record_audit_event([Store EXCEPT !.log = Append(log, "Error processing")],
                      organization_id, "ERROR", key,
                      [bucket |-> bucket, error |-> exc], "FAILURE", answer)
             result == [file |-> key, status |-> "ERROR", error |-> exc]
         IN  /\ audit' = r.audit /\ log' = r.log
             /\ IF r.raised
                THEN /\ pc' = "raised" /\ exc' = r.msg
                     /\ hist' = r.hist
                     /\ UNCHANGED <<idx, bucket, key, organization_id, head_response, tags,
                                    file_metadata, task_arn, results>>
                ELSE /\ results' = Append(results, result)
                     /\ hist' = Append(r.hist, ResultEntry(result))
                     /\ NextRecord
    /\ UNCHANGED <<ALLOWED_ORGANIZATION_IDS, batch, vvars, pvars>>

Next ==
    \/ ReturnResponse
    \/ SkipRecord
    \/ BeginRecord
    \/ GetObjectMetadata
    \/ RecordUpload
    \/ Validate
    \/ RecordValidation
    \/ TriggerProcessingTask
    \/ RecordProcessingStart
    \/ HandleValidationError
    \/ HandleException

Spec == Init /\ [][Next]_vars

-----------------------------------------------------------------------------
(* Reading the history *)

Recs == 1..Len(batch)

Terminated == pc \in {"returned", "raised"}

\* the processing of record r is over
Over(r) == r \in Recs /\ (idx > r \/ Terminated)

\* positions of hist that belong to record r
Pos(r) == { p \in DOMAIN hist : hist[p].rec = r }

IsCall(p, op)    == hist[p].op = op
IsPut(p)         == hist[p].op = "put_item"
IsPutOf(p, type) == IsPut(p) /\ hist[p].item.event_type = type
Stored(p)        == IsPut(p) /\ hist[p].ok
IsResult(p)      == hist[p].op = "result"
HasStatus(p, st) == IsResult(p) /\ hist[p].result.status = st

FetchOk(r)     == \E p \in Pos(r) : IsCall(p, "get_object_tagging") /\ hist[p].ok
FetchFailed(r) == \E p \in Pos(r) :
                     hist[p].op \in {"head_object", "get_object_tagging"} /\ ~hist[p].ok
Fetched(r)     == (CHOOSE p \in Pos(r) : IsCall(p, "get_object_tagging") /\ hist[p].ok)

PutFailed(r)   == \E p \in Pos(r) : IsPut(p) /\ ~hist[p].ok

\* the audit table holds exactly the items whose put_item succeeded, in order
RECURSIVE StoredItems(_)
StoredItems(h) ==
    IF h = <<>> THEN <<>>
    ELSE IF Head(h).op = "put_item" /\ Head(h).ok
         THEN <<Head(h).item>> \o StoredItems(Tail(h))
         ELSE StoredItems(Tail(h))

AuditIsHistory == audit = StoredItems(hist)

-----------------------------------------------------------------------------
(* C1, C2 *)

\* C1: when lambda_handler ends, every well-formed record of the batch none of
\* whose own audit writes failed has its entry in results: the failure of one
\* record never prevents a sibling from being processed.
C1_SiblingsProcessed ==
    Terminated =>
        \A r \in Recs :
            (~Malformed(batch[r]) /\ ~PutFailed(r)) => \E p \in Pos(r) : IsResult(p)

\* C2: lambda_handler never raises: whatever fails for a record, it ends by
\* returning the statusCode 200 response.
C2_NeverRaises == pc # "raised"

-----------------------------------------------------------------------------
(* C3 *)

Count(seq, x) == Cardinality({ p \in DOMAIN seq : seq[p] = x })

\* C3: every failed audit write is logged and raised to the caller: the log
\* holds one "Failed to record audit event" line per failed write; after a
\* failed write the only things that happen for the record are the ERROR audit
\* write of the except clause and an ERROR result; and no record with a failed
\* audit write is reported PROCESSING_STARTED or VALIDATION_FAILED.
C3_AuditFailurePropagates ==
    /\ Count(log, "Failed to record audit event")
         = Cardinality({ p \in DOMAIN hist : IsPut(p) /\ ~hist[p].ok })
    /\ \A p \in DOMAIN hist :
         (IsPut(p) /\ ~hist[p].ok) =>
            /\ \A q \in Pos(hist[p].rec) :
                 q > p => (IsPutOf(q, "ERROR") \/ HasStatus(q, "ERROR"))
            /\ \A q \in Pos(hist[p].rec) :
                 ~HasStatus(q, "PROCESSING_STARTED") /\ ~HasStatus(q, "VALIDATION_FAILED")

-----------------------------------------------------------------------------
(* The validation policy as the specification words it, for the claims *)

\* the organization id of the first source that has one: tags, then user metadata
PolicyOrg(h, t) ==
    LET md  == IF "Metadata" \in DOMAIN h THEN h["Metadata"] ELSE <<>>
        ids == << Get(t, "organization-id"), Get(t, "OrganizationId"),
                  Get(md, "organization-id"), Get(md, "organizationid") >>
        has == { n \in 1..4 : ids[n] # None /\ ids[n] # "" }
    IN  IF has = {} THEN None
        ELSE ids[CHOOSE n \in has : \A m \in has : n <= m]

\* the key ends in .zip, whatever the case of the letters
PolicyZip(k) ==
    /\ Len(k) >= 4
    /\ k[Len(k) - 3] = "."
    /\ k[Len(k) - 2] \in {"z", "Z"}
    /\ k[Len(k) - 1] \in {"i", "I"}
    /\ k[Len(k)] \in {"p", "P"}

PolicySize(h) == IF "ContentLength" \in DOMAIN h THEN h["ContentLength"] ELSE 0

\* the five checks in the order of the specification: whether the input fails
\* the check, and the reason the check gives
PolicyChecks(h, t, k) ==
    << [fails |-> PolicyOrg(h, t) = None,                       reason |-> MsgMissingOrg],
       [fails |-> PolicyOrg(h, t) \notin ALLOWED_ORGANIZATION_IDS, reason |-> MsgInvalidOrg],
       [fails |-> ~PolicyZip(k),                                reason |-> MsgExtension],
       [fails |-> PolicySize(h) = 0,                            reason |-> MsgEmpty],
       [fails |-> PolicySize(h) > 1073741824,                   reason |-> MsgTooLarge] >>

\* the reason of the first check, in that order, that the input fails; None
\* when it passes them all
PolicyVerdict(h, t, k) ==
    LET cs    == PolicyChecks(h, t, k)
        fails == { n \in DOMAIN cs : cs[n].fails }
    IN  IF fails = {} THEN None
        ELSE cs[CHOOSE n \in fails : \A m \in fails : n <= m].reason

\* what the fetch of record r returned, and the verdict of the policy on it
ObjectOf(r)  == hist[Fetched(r)].object
VerdictOf(r) == PolicyVerdict(ObjectOf(r).head_response, ObjectOf(r).tags,
                              hist[Fetched(r)].key)

Pending == <<"ORG#", "PENDING">>
Unknown == <<"ORG#", "UNKNOWN">>

\* record r has exactly one history entry that satisfies P
One(r, P(_)) == \E p \in Pos(r) : P(p) /\ \A q \in Pos(r) : P(q) => q = p

-----------------------------------------------------------------------------
(* C4 *)

\* C4 as claimed: the UPLOAD event of a record is recorded before its metadata
\* is fetched, and a record whose fetch failed has one all the same.
C4_UploadBeforeFetch ==
    /\ \A p \in DOMAIN hist :
         IsCall(p, "head_object") =>
            \E q \in Pos(hist[p].rec) : q < p /\ IsPutOf(q, "UPLOAD") /\ Stored(q)
    /\ \A r \in Recs :
         (Over(r) /\ FetchFailed(r)) => \E q \in Pos(r) : IsPutOf(q, "UPLOAD") /\ Stored(q)

\* C4 amended: the UPLOAD event is written, under "PENDING", right after the
\* metadata and the tags were fetched and before validation.  No UPLOAD write
\* precedes the fetch; a record whose fetch fails has none; a record whose
\* fetch succeeded has exactly one UPLOAD write, the step after its fetch, and
\* when that write succeeded the event is in the audit table.
C4_UploadAfterFetch ==
    \A r \in Recs :
        /\ \A p \in Pos(r) :
             IsPutOf(p, "UPLOAD") =>
                /\ p > 1 /\ hist[p - 1].rec = r
                /\ IsCall(p - 1, "get_object_tagging") /\ hist[p - 1].ok
                /\ hist[p].item.pk = Pending
                /\ hist[p].item.file_key = hist[p - 1].key
                /\ hist[p].ok => \E a \in DOMAIN audit : audit[a] = hist[p].item
        /\ FetchFailed(r) => ~\E p \in Pos(r) : IsPutOf(p, "UPLOAD")
        /\ (FetchOk(r) /\ ~(idx = r /\ pc = "upload")) =>
             /\ One(r, LAMBDA p : IsPutOf(p, "UPLOAD"))
             /\ \A p \in Pos(r) :
                  (IsPut(p) /\ ~IsPutOf(p, "UPLOAD")) =>
                      \E q \in Pos(r) : q < p /\ IsPutOf(q, "UPLOAD")

\* a record whose validation failed and whose UPLOAD event is in the table
C4_Witness ==
    \E r \in Recs : \E p, q \in Pos(r) :
        /\ FetchOk(r)
        /\ IsPutOf(p, "UPLOAD") /\ Stored(p)
        /\ q > p /\ HasStatus(q, "VALIDATION_FAILED")

-----------------------------------------------------------------------------
(* C5 *)

UploadThenValidation(r) ==
    \E p, q \in Pos(r) :
        /\ p < q
        /\ IsPutOf(p, "UPLOAD") /\ Stored(p)
        /\ IsPutOf(q, "VALIDATION") /\ Stored(q)
        /\ hist[q].item.status \in {"SUCCESS", "FAILURE"}

\* C5 as claimed: every record whose metadata fetch succeeded ends with an
\* UPLOAD event and, after it, a VALIDATION event in the audit log.
C5_UploadThenValidation ==
    \A r \in Recs : (Over(r) /\ FetchOk(r)) => UploadThenValidation(r)

\* C5 amended: every record whose metadata fetch succeeded ends with an UPLOAD
\* event and, after it, a VALIDATION event (SUCCESS or FAILURE) in the audit
\* log, unless the write of its UPLOAD event or of its VALIDATION event failed;
\* and no VALIDATION event is written for a record before its UPLOAD event was
\* stored.
C5_UploadThenValidationUnlessWriteFails ==
    \A r \in Recs :
        /\ (Over(r) /\ FetchOk(r)) =>
              \/ UploadThenValidation(r)
              \/ \E p \in Pos(r) :
                    /\ IsPut(p) /\ ~hist[p].ok
                    /\ hist[p].item.event_type \in {"UPLOAD", "VALIDATION"}
        /\ \A q \in Pos(r) :
              IsPutOf(q, "VALIDATION") =>
                 \E p \in Pos(r) : p < q /\ IsPutOf(p, "UPLOAD") /\ Stored(p)

\* a finished record with both events, its validation having failed
C5_Witness ==
    \E r \in Recs :
        /\ Over(r) /\ FetchOk(r) /\ UploadThenValidation(r)
        /\ \E q \in Pos(r) : IsPutOf(q, "VALIDATION") /\ hist[q].item.status = "FAILURE"

-----------------------------------------------------------------------------
(* C6 *)

DispatchFailed(r) == \E p \in Pos(r) : IsCall(p, "run_task") /\ ~hist[p].ok

\* the dispatcher is invoked for a record only after its validation passed and
\* the VALIDATION SUCCESS event was stored
DispatchOnlyIfValidated ==
    \A p \in DOMAIN hist :
        IsCall(p, "run_task") =>
           /\ FetchOk(hist[p].rec)
           /\ VerdictOf(hist[p].rec) = None
           /\ \E q \in Pos(hist[p].rec) :
                 /\ q < p /\ IsPutOf(q, "VALIDATION") /\ Stored(q)
                 /\ hist[q].item.status = "SUCCESS"

\* a PROCESSING_START event is written only as the step after the dispatcher
\* returned a task handle for the record, and holds that handle
StartAfterDispatch ==
    \A p \in DOMAIN hist :
        IsPutOf(p, "PROCESSING_START") =>
           /\ p > 1 /\ hist[p - 1].rec = hist[p].rec
           /\ IsCall(p - 1, "run_task") /\ hist[p - 1].ok
           /\ hist[p - 1].answer \notin {"NoTasks", "ClientError"}
           /\ hist[p].item.details.task_arn = hist[p - 1].answer

\* C6 as claimed: dispatch only after a passed validation; PROCESSING_START
\* only after the dispatcher returned a handle, and holding it; and when the
\* dispatcher fails, no PROCESSING_START event, an ERROR event recorded and the
\* result status ERROR.
C6_DispatchFailureAudited ==
    /\ DispatchOnlyIfValidated
    /\ StartAfterDispatch
    /\ \A r \in Recs :
         (Over(r) /\ DispatchFailed(r)) =>
            /\ ~\E p \in Pos(r) : IsPutOf(p, "PROCESSING_START")
            /\ \E p \in Pos(r) : IsPutOf(p, "ERROR") /\ Stored(p)
            /\ \E p \in Pos(r) : HasStatus(p, "ERROR")

-----------------------------------------------------------------------------
(* C7 *)

\* no VALIDATION event and no dispatch for record r
NoValidationNoDispatch(r) ==
    \A p \in Pos(r) : ~IsPutOf(p, "VALIDATION") /\ ~IsCall(p, "run_task")

\* C7 as claimed: a record whose metadata fetch failed has result status
\* ERROR, no VALIDATION event, no dispatch, and an ERROR event recorded under
\* "UNKNOWN".
C7_FetchFailureAudited ==
    \A r \in Recs :
        (Over(r) /\ FetchFailed(r)) =>
           /\ NoValidationNoDispatch(r)
           /\ \E p \in Pos(r) : HasStatus(p, "ERROR")
           /\ \E p \in Pos(r) : IsPutOf(p, "ERROR") /\ Stored(p) /\ hist[p].item.pk = Unknown

-----------------------------------------------------------------------------
(* C8 *)

\* validation ran for record r and failed
ValidationFailed(r) ==
    /\ FetchOk(r)
    /\ \E p \in Pos(r) : IsPutOf(p, "UPLOAD") /\ Stored(p)
    /\ VerdictOf(r) # None

\* C8 as claimed: a record that fails a validation check has exactly one
\* VALIDATION event, of status FAILURE and with the reason, recorded; result
\* status VALIDATION_FAILED; no ERROR event; no dispatch.
C8_ValidationFailureTerminal ==
    \A r \in Recs :
        (Over(r) /\ ValidationFailed(r)) =>
           /\ One(r, LAMBDA p : IsPutOf(p, "VALIDATION") /\ Stored(p))
           /\ \A p \in Pos(r) :
                IsPutOf(p, "VALIDATION") =>
                   /\ hist[p].item.status = "FAILURE"
                   /\ hist[p].item.details.error = VerdictOf(r)
           /\ \E p \in Pos(r) : HasStatus(p, "VALIDATION_FAILED")
           /\ \A p \in Pos(r) : ~IsPutOf(p, "ERROR") /\ ~IsCall(p, "run_task")

-----------------------------------------------------------------------------
(* Validator harness: validate applied to one input drawn from bounded sets *)

VOrgValues == {"", "acme", "evil"}
VTags      == Dicts({"organization-id", "OrganizationId"}, VOrgValues)
VMetadata  == Dicts({"organization-id", "organizationid"}, VOrgValues)
VSizes     == {0, 1, 500, max_size, max_size + 1, 2000000000}
VKeys      == { <<"a", ".", "z", "i", "p">>,
                <<"a", ".", "Z", "i", "P">>,
                <<"A", ".", "Z", "I", "P">>,
                <<".", "z", "i", "p">>,
                <<"z", "i", "p">>,
                <<"a", ".", "t", "x", "t">>,
                <<"a", ".", "z", "i", "p", ".", "t", "x", "t">>,
                <<"a", ".", "z", "i", "p", " ">> }
VAllowed   == { {"acme"}, {"acme", "evil"}, {""} }

\* head_object responses: ContentLength present or (for the default) absent
VHeads == { [ContentLength |-> s, Metadata |-> m] : s \in VSizes, m \in VMetadata }
          \cup { [Metadata |-> m] : m \in VMetadata }

InitV ==
    /\ ALLOWED_ORGANIZATION_IDS \in VAllowed
    /\ v_in \in [head_response : VHeads, tags : VTags, key : VKeys]
    /\ v_out = [applied |-> FALSE]
    /\ HandlerIdle
    /\ ProcessorIdle

ApplyValidate ==
    /\ ~v_out.applied
    /\ v_out' = [applied |-> TRUE,
                 outcome |-> validate(v_in.head_response, v_in.tags, v_in.key)]
    /\ UNCHANGED <<ALLOWED_ORGANIZATION_IDS, hvars, v_in, pvars>>

NextV == ApplyValidate

SpecV == InitV /\ [][NextV]_vars

-----------------------------------------------------------------------------
(* C9, C10: the validations on every input of the harness *)

\* C9: the outcome of validation is that of the five checks applied in the
\* order organization resolution, organization authorization, extension,
\* non-empty, maximum size: it passes when the input fails none, and otherwise
\* reports the reason of the first check in this order that the input fails;
\* the five reasons are distinct; a key that does not end in .zip under an
\* authorized organization fails with the extension reason whatever the size.
C9_FirstFailingCheck ==
    v_out.applied =>
        LET verdict == PolicyVerdict(v_in.head_response, v_in.tags, v_in.key)
            o       == v_out.outcome
        IN  /\ o.passed <=> verdict = None
            /\ ~o.passed => o.error = verdict
            /\ Cardinality({MsgMissingOrg, MsgInvalidOrg, MsgExtension,
                            MsgEmpty, MsgTooLarge}) = 5
            /\ (/\ PolicyOrg(v_in.head_response, v_in.tags) \in ALLOWED_ORGANIZATION_IDS
                /\ ~PolicyZip(v_in.key))
                 => (~o.passed /\ o.error = MsgExtension)

\* an empty file with a key that is no .zip, under an authorized organization
\* taken from the user metadata: the extension reason is reported
C9_Witness ==
    /\ v_out.applied
    /\ PolicySize(v_in.head_response) = 0
    /\ ~PolicyZip(v_in.key)
    /\ v_in.tags = <<>>
    /\ PolicyOrg(v_in.head_response, v_in.tags) \in ALLOWED_ORGANIZATION_IDS
    /\ v_out.outcome.error = MsgExtension

\* C10 as claimed: every input of size 0 fails validation with the reason
\* EmptyFile, whatever its key, tags, user metadata and the allow-list.
C10_EmptyAlwaysEmptyFile ==
    (v_out.applied /\ PolicySize(v_in.head_response) = 0) =>
        (~v_out.outcome.passed /\ v_out.outcome.error = MsgEmpty)

\* C10 amended: every input of size 0 fails validation; the reason is
\* EmptyFile when the organization resolves to an authorized id and the key
\* ends in .zip, and otherwise the reason of the earlier check that fails:
\* missing organization, unauthorized organization or extension.
C10_EmptyFileAfterOrgAndExtension ==
    (v_out.applied /\ PolicySize(v_in.head_response) = 0) =>
        LET org == PolicyOrg(v_in.head_response, v_in.tags)
        IN  /\ ~v_out.outcome.passed
            /\ v_out.outcome.error =
                 IF org = None THEN MsgMissingOrg
                 ELSE IF org \notin ALLOWED_ORGANIZATION_IDS THEN MsgInvalidOrg
                 ELSE IF ~PolicyZip(v_in.key) THEN MsgExtension
                 ELSE MsgEmpty

\* an input without ContentLength (size 0 by default), .ZIP key and an
\* authorized tag: EmptyFile
C10_Witness ==
    /\ v_out.applied
    /\ "ContentLength" \notin DOMAIN v_in.head_response
    /\ PolicyZip(v_in.key) /\ v_in.key # DotZip /\ Lower(v_in.key) # v_in.key
    /\ GetOr(v_in.tags, "OrganizationId", "") \in ALLOWED_ORGANIZATION_IDS
    /\ ~v_out.outcome.passed /\ v_out.outcome.error = MsgEmpty

-----------------------------------------------------------------------------
(* C11, C12: authorization, size limits and the source of the organization id *)

\* C11: a resolved organization id outside the allow-list fails with the
\* unauthorized reason; a resolved id of the allow-list with a .zip key and
\* 0 < size <= 1,073,741,824 passes, and the outcome's organization id is the
\* resolved id; with such an id and key, a size above 1,073,741,824 fails with
\* the too-large reason.
C11_AuthorizationAndSize ==
    v_out.applied =>
        LET org  == PolicyOrg(v_in.head_response, v_in.tags)
            size == PolicySize(v_in.head_response)
            o    == v_out.outcome
        IN  /\ (org # None /\ org \notin ALLOWED_ORGANIZATION_IDS)
                 => (~o.passed /\ o.error = MsgInvalidOrg)
            /\ (org \in ALLOWED_ORGANIZATION_IDS /\ PolicyZip(v_in.key)
                  /\ 0 < size /\ size <= 1073741824)
                 => (o.passed /\ o.org = org /\ o.fm.file_size = size)
            /\ (org \in ALLOWED_ORGANIZATION_IDS /\ PolicyZip(v_in.key)
                  /\ size > 1073741824)
                 => (~o.passed /\ o.error = MsgTooLarge)

\* a file of exactly 1 GiB, authorized through the user metadata, passes
C11_Witness ==
    /\ v_out.applied
    /\ PolicySize(v_in.head_response) = 1073741824
    /\ v_in.tags = <<>>
    /\ v_out.outcome.passed
    /\ v_out.outcome.org = "evil"

\* the organization id of the tags and that of the user metadata, each None
\* when the source has none (an empty value is no id)
TagId(t)  == IF Get(t, "organization-id") \notin {None, ""}
             THEN t["organization-id"]
             ELSE IF Get(t, "OrganizationId") \notin {None, ""}
                  THEN t["OrganizationId"] ELSE None
MetaId(h) == LET md == IF "Metadata" \in DOMAIN h THEN h["Metadata"] ELSE <<>>
             IN  IF Get(md, "organization-id") \notin {None, ""}
                 THEN md["organization-id"]
                 ELSE IF Get(md, "organizationid") \notin {None, ""}
                      THEN md["organizationid"] ELSE None

\* the outcome of validation is the one that resolving to `id` gives
ResolvedTo(o, id) ==
    IF id \in ALLOWED_ORGANIZATION_IDS
    THEN o.org = id /\ o.error \notin {MsgMissingOrg, MsgInvalidOrg}
    ELSE ~o.passed /\ o.error = MsgInvalidOrg /\ o.org = "UNKNOWN"

\* C12: when the tags hold an organization id it is the resolved one, whatever
\* the user metadata holds; the id of the user metadata is the resolved one
\* only when the tags hold none; resolution fails with the missing-organization
\* reason exactly when neither source holds one.
C12_TagsBeforeMetadata ==
    v_out.applied =>
        LET tag  == TagId(v_in.tags)
            meta == MetaId(v_in.head_response)
            o    == v_out.outcome
        IN  /\ tag # None => ResolvedTo(o, tag)
            /\ (tag = None /\ meta # None) => ResolvedTo(o, meta)
            /\ (~o.passed /\ o.error = MsgMissingOrg) <=> (tag = None /\ meta = None)

\* the tags name an unauthorized organization, the user metadata an authorized
\* one: the tag's id is resolved and refused
C12_Witness ==
    /\ v_out.applied
    /\ TagId(v_in.tags) = "evil" /\ MetaId(v_in.head_response) = "acme"
    /\ ALLOWED_ORGANIZATION_IDS = {"acme"}
    /\ v_out.outcome.error = MsgInvalidOrg

-----------------------------------------------------------------------------
(* C14: what the dispatcher is given *)

\* the decimal number a sequence of digits writes
RECURSIVE DecimalValue(_)
DecimalValue(ds) ==
    IF ds = <<>> THEN 0
    ELSE 10 * DecimalValue(SubSeq(ds, 1, Len(ds) - 1))
         + (CHOOSE d \in 0..9 : Digit(d) = ds[Len(ds)])

Dispatches(r)   == { p \in Pos(r) : IsCall(p, "run_task") }
PassedValidation(r) == FetchOk(r) /\ VerdictOf(r) = None
ValidationStored(r) ==
    \E p \in Pos(r) : IsPutOf(p, "VALIDATION") /\ Stored(p)
                      /\ hist[p].item.status = "SUCCESS"

\* the task is given the record's bucket, the decoded key that the fetch and
\* the audit events of the record use, the resolved organization and the size
\* that the fetch returned
DispatchedWith(r, d) ==
    LET env == hist[d].environment
        f   == hist[Fetched(r)]
    IN  /\ env.S3_BUCKET = batch[r].bucket
        /\ env.S3_KEY = unquote_plus(batch[r].key)
        /\ env.S3_KEY = f.key
        /\ \A p \in Pos(r) : IsPut(p) => hist[p].item.file_key = env.S3_KEY
        /\ env.ORGANIZATION_ID = PolicyOrg(f.object.head_response, f.object.tags)
        /\ DecimalValue(env.FILE_SIZE) = PolicySize(f.object.head_response)
        /\ DOMAIN env = {"S3_BUCKET", "S3_KEY", "ORGANIZATION_ID", "FILE_SIZE"}

\* C14 as stated: every record that passes validation is dispatched with the
\* bucket, the decoded key, the resolved organization and the fetched size,
\* and its result is PROCESSING_STARTED.
C14_ValidatedIsStarted ==
    \A r \in Recs : (Over(r) /\ PassedValidation(r)) =>
        /\ \E d \in Dispatches(r) : DispatchedWith(r, d)
        /\ \E p \in Pos(r) : HasStatus(p, "PROCESSING_STARTED")

\* C14 (amended): a record that passes validation and whose VALIDATION event
\* is stored is dispatched once, with the bucket, the decoded key, the
\* resolved organization and the fetched size; its VALIDATION event and its
\* result carry the same organization; the result is PROCESSING_STARTED when
\* the task starts and the PROCESSING_START event is stored, and an ERROR or
\* a raised write failure otherwise.
C14_ValidatedIsDispatched ==
    \A r \in Recs : (Over(r) /\ PassedValidation(r)) =>
        LET org == PolicyOrg(ObjectOf(r).head_response, ObjectOf(r).tags)
        IN
        /\ ValidationStored(r) <=> Dispatches(r) # {}
        /\ \A d \in Dispatches(r) :
             /\ Dispatches(r) = {d}
             /\ DispatchedWith(r, d)
             /\ \A p \in Pos(r) : IsPutOf(p, "VALIDATION")
                                    => hist[p].item.pk = <<"ORG#", org>>
             /\ (hist[d].ok /\ ~PutFailed(r))
                  => \E p \in Pos(r) :
                        /\ HasStatus(p, "PROCESSING_STARTED")
                        /\ hist[p].result.organization_id = org
                        /\ hist[p].result.task_arn = hist[d].answer
                        /\ hist[p].result.file = hist[d].environment.S3_KEY
             /\ ~hist[d].ok
                  => \/ \E p \in Pos(r) : HasStatus(p, "ERROR")
                     \/ (pc = "raised" /\ idx = r)
        /\ (\E p \in Pos(r) : HasStatus(p, "PROCESSING_STARTED"))
              => \E d \in Dispatches(r) : hist[d].ok

\* a record whose key arrives URL-encoded is validated, dispatched with the
\* decoded key and started
C14_Witness ==
    \E r \in Recs :
        /\ Over(r) /\ PassedValidation(r)
        /\ batch[r].key # unquote_plus(batch[r].key)
        /\ \E d \in Dispatches(r) : hist[d].ok /\ DispatchedWith(r, d)
        /\ \E p \in Pos(r) : HasStatus(p, "PROCESSING_STARTED")

-----------------------------------------------------------------------------
(* C17: the organization an audit event is written under *)

OrgKey(org) == <<"ORG#", org>>
ResolvedOf(r) == PolicyOrg(ObjectOf(r).head_response, ObjectOf(r).tags)

\* record r got past authorization before position p: its VALIDATION event
\* follows a resolved and authorized organization
Authorized(r) == FetchOk(r) /\ ResolvedOf(r) \in ALLOWED_ORGANIZATION_IDS

\* C17: every audit event that lambda_handler writes is under "PENDING",
\* "UNKNOWN" or an organization of the allow-list.  The VALIDATION FAILURE
\* event of a failed resolution or authorization is under "UNKNOWN"; the
\* VALIDATION FAILURE and ERROR events raised after authorization are under
\* the resolved organization.
C17_EventOrganization ==
    \A p \in DOMAIN hist : IsPut(p) =>
        LET r    == hist[p].rec
            item == hist[p].item
            afterAuthorization ==
                \E q \in Pos(r) : q < p /\ IsPutOf(q, "UPLOAD") /\ Stored(q)
                                  /\ Authorized(r)
        IN  /\ item.pk \in { OrgKey(o) : o \in {"PENDING", "UNKNOWN"}
                                          \cup ALLOWED_ORGANIZATION_IDS }
            /\ (IsPutOf(p, "VALIDATION") /\ item.status = "FAILURE")
                 => IF item.details.error \in {MsgMissingOrg, MsgInvalidOrg}
                    THEN /\ item.pk = Unknown
                         /\ ~Authorized(r)
                    ELSE /\ item.pk = OrgKey(ResolvedOf(r))
                         /\ Authorized(r)
            /\ IsPutOf(p, "ERROR")
                 => item.pk = IF afterAuthorization THEN OrgKey(ResolvedOf(r))
                              ELSE Unknown

\* one batch in which an unauthorized object's VALIDATION FAILURE is written
\* under "UNKNOWN", and an authorized but empty object's under its organization
C17_Witness ==
    /\ \E p \in DOMAIN hist :
          /\ IsPutOf(p, "VALIDATION") /\ hist[p].item.status = "FAILURE"
          /\ hist[p].item.details.error = MsgInvalidOrg
          /\ hist[p].item.pk = Unknown
    /\ \E p \in DOMAIN hist :
          /\ IsPutOf(p, "VALIDATION") /\ hist[p].item.status = "FAILURE"
          /\ hist[p].item.details.error = MsgEmpty
          /\ hist[p].item.pk = OrgKey("acme")

-----------------------------------------------------------------------------
(* C18: the trail behind a PROCESSING_STARTED result *)

Started(r) == \E p \in Pos(r) : HasStatus(p, "PROCESSING_STARTED")

AtMostOne(r, P(_)) == Cardinality({ p \in Pos(r) : P(p) }) <= 1

IsHeadObject(p) == IsCall(p, "head_object")
IsGetTagging(p) == IsCall(p, "get_object_tagging")
IsRunTask(p)    == IsCall(p, "run_task")

\* C18: behind every PROCESSING_STARTED result the audit store received, in
\* this order, the record's UPLOAD, VALIDATION SUCCESS and PROCESSING_START
\* events, and the dispatcher was invoked exactly once, between the last two;
\* no record has its metadata fetched or the dispatcher invoked more than once.
C18_StartedTrail ==
    \A r \in Recs :
        /\ AtMostOne(r, IsHeadObject)
        /\ AtMostOne(r, IsGetTagging)
        /\ AtMostOne(r, IsRunTask)
        /\ Started(r) =>
             \E u \in Pos(r) :
               /\ IsPutOf(u, "UPLOAD") /\ Stored(u)
               /\ \E v \in Pos(r) :
                    /\ u < v
                    /\ IsPutOf(v, "VALIDATION") /\ Stored(v)
                    /\ hist[v].item.status = "SUCCESS"
                    /\ \E d \in Pos(r) :
                         /\ v < d
                         /\ IsRunTask(d) /\ hist[d].ok
                         /\ \A p \in Pos(r) : IsRunTask(p) => p = d
                         /\ \E s \in Pos(r) :
                              /\ d < s
                              /\ IsPutOf(s, "PROCESSING_START") /\ Stored(s)
                              /\ \A p \in Pos(r) : IsPut(p) => p \in {u, v, s}
                              /\ \E z \in Pos(r) :
                                   s < z /\ HasStatus(z, "PROCESSING_STARTED")

\* both records of a batch are started, each with its own trail
C18_Witness ==
    /\ Len(batch) = 2
    /\ \A r \in Recs : Started(r) /\ Cardinality(Pos(r)) = 7

-----------------------------------------------------------------------------
(* The processor: src/container/processor.py *)

MaxRuns == 2   \* processor runs that write to the audit table concurrently
MaxTime == 3   \* ticks of the clock

\* os.environ of a task: the four overrides of the dispatcher and the table
\* name of the task definition, None for a variable that is not set
Environ(b, k, o, n, t) ==
    [S3_BUCKET |-> b, S3_KEY |-> k, ORGANIZATION_ID |-> o, FILE_SIZE |-> n,
     AUDIT_TABLE_NAME |-> t]

FullEnviron == Environ("ingress", "a.zip", "acme", "500", "audit-trail")

Environs ==
    { FullEnviron,
      Environ("ingress", "a.zip", "acme", None, "audit-trail"),
      Environ(None, "a.zip", "acme", "500", "audit-trail"),
      Environ("ingress", "", "acme", "500", "audit-trail"),
      Environ("ingress", "a.zip", None, "500", "audit-trail"),
      Environ("ingress", "a.zip", "acme", "500", None),
      Environ("ingress", "a.zip", "acme", "500", "") }

\* lines 27-31: the module's globals
S3_BUCKET(e)        == e.S3_BUCKET
S3_KEY(e)           == e.S3_KEY
ORGANIZATION_ID(e)  == e.ORGANIZATION_ID
FILE_SIZE(e)        == IF e.FILE_SIZE = None THEN "0" ELSE e.FILE_SIZE
AUDIT_TABLE_NAME(e) == e.AUDIT_TABLE_NAME

\* line 105: all([S3_BUCKET, S3_KEY, ORGANIZATION_ID, AUDIT_TABLE_NAME])
AllRequired(e) ==
    /\ Truthy(S3_BUCKET(e)) /\ Truthy(S3_KEY(e))
    /\ Truthy(ORGANIZATION_ID(e)) /\ Truthy(AUDIT_TABLE_NAME(e))

\* lines 71-80: the item of an event.  The timestamp is the clock's reading,
\* which isoformat() writes injectively and in order; event_id is a uuid4,
\* taken as fresh.
ProcessorItem(org, event_type, file_key, details, status, timestamp, event_id) ==
    [pk         |-> <<"ORG#", org>>,
     sk         |-> <<"EVENT#", timestamp, "#", event_type>>,
     event_id   |-> event_id,
     event_type |-> event_type,
     file_key   |-> file_key,
     timestamp  |-> timestamp,
     status     |-> status,
     details    |-> details]

\* the arguments of the four calls of record_audit_event in
\* process_data_package, by the control point of the call
AuditCall(e, site, error) ==
    CASE site = "missing" ->          \* lines 107-113
           [org |-> Or(ORGANIZATION_ID(e), "UNKNOWN"),
            event_type |-> "PROCESSING_ERROR",
            file_key |-> Or(S3_KEY(e), "UNKNOWN"),
            details |-> [error |-> "Missing required environment variables"],
            status |-> "FAILURE"]
      [] site = "in_progress" ->      \* lines 119-128
           [org |-> ORGANIZATION_ID(e),
            event_type |-> "PROCESSING_IN_PROGRESS",
            file_key |-> S3_KEY(e),
            details |-> [bucket |-> S3_BUCKET(e), file_size |-> FILE_SIZE(e),
                         status |-> "Processing data package"],
            status |-> "SUCCESS"]
      [] site = "complete" ->         \* lines 156-166
           [org |-> ORGANIZATION_ID(e),
            event_type |-> "PROCESSING_COMPLETE",
            file_key |-> S3_KEY(e),
            details |-> [bucket |-> S3_BUCKET(e), file_size |-> FILE_SIZE(e),
                         result |-> "SUCCESS",
                         message |-> "Data package processed successfully"],
            status |-> "SUCCESS"]
      [] site = "failed" ->           \* lines 174-185
           [org |-> ORGANIZATION_ID(e),
            event_type |-> "PROCESSING_COMPLETE",
            file_key |-> S3_KEY(e),
            details |-> [bucket |-> S3_BUCKET(e), file_size |-> FILE_SIZE(e),
                         result |-> "FAILURE", error |-> error],
            status |-> "FAILURE"]

CallSites == {"missing", "in_progress", "complete", "failed"}

\* the primary key of the audit table: partition key pk, sort key sk
PrimaryKey(item) == <<item.pk, item.sk>>

\* DynamoDB's put_item: the item takes the place of the item with its primary
\* key, if the table holds one
put_item(t, item) ==
    [k \in DOMAIN t \cup {PrimaryKey(item)} |->
        IF k = PrimaryKey(item) THEN item ELSE t[k]]

\* a run of process_data_package in the environment e, before its first step
NewRun(e) ==
    [environ |-> e, pc |-> "main", built |-> FALSE, item |-> <<>>, n |-> 0,
     asleep_since |-> 0, error |-> None, exit |-> -1, uncaught |-> None]

\* one run, in any of the environments
InitP ==
    /\ ALLOWED_ORGANIZATION_IDS = {"acme"}
    /\ HandlerIdle
    /\ v_in = None /\ v_out = [applied |-> FALSE]
    /\ now = 0 /\ table = <<>> /\ calls = <<>>
    /\ \E e \in Environs : runs = <<NewRun(e)>>

\* several tasks of one organization run concurrently: a notification
\* delivered more than once starts one task for each delivery
InitC ==
    /\ ALLOWED_ORGANIZATION_IDS = {"acme"}
    /\ HandlerIdle
    /\ v_in = None /\ v_out = [applied |-> FALSE]
    /\ now = 0 /\ table = <<>> /\ calls = <<>>
    /\ runs = [r \in 1..MaxRuns |-> NewRun(FullEnviron)]

\* the run r with its state replaced by q
RunBecomes(r, q) == runs' = [runs EXCEPT ![r] = q]

\* line 105: a run missing a required variable takes the branch that records
\* PROCESSING_ERROR, any other run enters the try block
CheckEnvironment(r) ==
    /\ runs[r].pc = "main"
    /\ RunBecomes(r, [runs[r] EXCEPT !.pc = IF AllRequired(runs[r].environ)
                                           THEN "in_progress" ELSE "missing"])
    /\ UNCHANGED <<ALLOWED_ORGANIZATION_IDS, hvars, vvars, now, table, calls>>

\* where the run goes when record_audit_event returns: sys.exit(1) at line 114,
\* the access check at line 138, the end of the function after line 168,
\* sys.exit(1) at line 189
Returned(q) ==
    CASE q.pc = "missing"     -> [q EXCEPT !.built = FALSE, !.pc = "exited", !.exit = 1]
      [] q.pc = "in_progress" -> [q EXCEPT !.built = FALSE, !.pc = "head_object"]
      [] q.pc = "complete"    -> [q EXCEPT !.built = FALSE, !.pc = "exited", !.exit = 0]
      [] q.pc = "failed"      -> [q EXCEPT !.built = FALSE, !.pc = "exited", !.exit = 1]

\* a slip that ends a failed run like a successful one
Raised_ExitZero(q, cls, msg) ==
    IF q.pc \in {"in_progress", "head_object", "complete"}
    THEN [q EXCEPT !.built = FALSE, !.pc = "exited", !.exit = 0]
    ELSE [q EXCEPT !.built = FALSE, !.pc = "exited", !.exit = 1, !.uncaught = cls]

\* where the run goes when an exception is raised: inside the try block, to
\* the except clause of line 170; at lines 107 and 174, out of the program,
\* which the interpreter ends with status 1
Raised(q, cls, msg) ==
    IF q.pc \in {"in_progress", "head_object", "complete"}
    THEN [q EXCEPT !.built = FALSE, !.pc = "failed", !.error = msg]
    ELSE [q EXCEPT !.built = FALSE, !.pc = "exited", !.exit = 1, !.uncaught = cls]

\* lines 106 and 171: the message that the call site logs at ERROR level
\* before it calls record_audit_event
SiteLog(site) ==
    CASE site = "missing" -> <<"Missing required environment variables">>
      [] site = "failed"  -> <<"Processing failed">>
      [] OTHER            -> <<>>

\* the call site's logger.error, then record_audit_event, lines 67-80: the
\* table resource, the timestamp, the event id and the item.
\* dynamodb.Table(None) raises a ValueError.
BuildItem(r) ==
    LET q == runs[r]
        c == AuditCall(q.environ, q.pc, q.error)
    IN  /\ q.pc \in CallSites /\ ~q.built
        /\ log' = log \o SiteLog(q.pc)
        /\ IF AUDIT_TABLE_NAME(q.environ) = None
           THEN RunBecomes(r, Raised(q, "ValueError", "Required parameter name not set"))
           ELSE RunBecomes(r, [q EXCEPT !.built = TRUE, !.n = q.n + 1,
                    !.item = ProcessorItem(c.org, c.event_type, c.file_key, c.details,
                                           c.status, now, <<r, q.n + 1>>)])
        /\ UNCHANGED <<ALLOWED_ORGANIZATION_IDS, hrest, vvars, now, table, calls>>

\* the answers of put_item: no table has the empty name
PutItemAnswers(e) ==
    IF AUDIT_TABLE_NAME(e) = "" THEN {"ParamValidationError"} ELSE {"ok", "ClientError"}

\* record_audit_event, lines 82-87: put_item; a ClientError is logged at ERROR
\* level and raised again, any other exception passes through unlogged
PutItem(r) ==
    LET q == runs[r]
    IN  /\ q.pc \in CallSites /\ q.built
        /\ \E answer \in PutItemAnswers(q.environ) :
             /\ calls' = Append(calls, [op |-> "put_item", run |-> r,
                                        answer |-> answer, item |-> q.item])
             /\ log' = IF answer = "ClientError"
                       THEN Append(log, "Failed to record audit event")
                       ELSE log
             /\ IF answer = "ok"
                THEN table' = put_item(table, q.item) /\ RunBecomes(r, Returned(q))
                ELSE table' = table /\ RunBecomes(r, Raised(q, answer, answer))
        /\ UNCHANGED <<ALLOWED_ORGANIZATION_IDS, hrest, vvars, now>>

\* lines 138-147: the access check.  A ClientError is logged at WARNING level; any
\* other exception of the S3 client reaches the except clause of line 170.
\* Otherwise the run goes to sleep.
HeadObject(r) ==
    LET q == runs[r]
    IN  /\ q.pc = "head_object"
        /\ \E answer \in {"ok", "ClientError", "EndpointConnectionError"} :
             /\ calls' = Append(calls, [op |-> "head_object", run |-> r,
                                        answer |-> answer, item |-> <<>>])
             /\ IF answer = "EndpointConnectionError"
                THEN RunBecomes(r, Raised(q, answer, answer))
                ELSE RunBecomes(r, [q EXCEPT !.pc = "sleep", !.asleep_since = now])
        /\ UNCHANGED <<ALLOWED_ORGANIZATION_IDS, hvars, vvars, now, table>>

\* line 148, time.sleep(2): the run goes on only after the clock has advanced
Sleep(r) ==
    LET q == runs[r]
    IN  /\ q.pc = "sleep"
        /\ now > q.asleep_since
        /\ RunBecomes(r, [q EXCEPT !.pc = "complete"])
        /\ UNCHANGED <<ALLOWED_ORGANIZATION_IDS, hvars, vvars, now, table, calls>>

\* the clock advances
Tick ==
    /\ now < MaxTime
    /\ now' = now + 1
    /\ UNCHANGED <<ALLOWED_ORGANIZATION_IDS, hvars, vvars, runs, table, calls>>

NextP ==
    \/ \E r \in DOMAIN runs : CheckEnvironment(r)
    \/ \E r \in DOMAIN runs : BuildItem(r)
    \/ \E r \in DOMAIN runs : PutItem(r)
    \/ \E r \in DOMAIN runs : HeadObject(r)
    \/ \E r \in DOMAIN runs : Sleep(r)
    \/ Tick

SpecP == InitP /\ [][NextP]_vars

SpecC == InitC /\ [][NextP]_vars

-----------------------------------------------------------------------------
(* Readers of the processor's history *)

Exited(r) == runs[r].pc = "exited"

IsPutBy(c, r)    == c.op = "put_item" /\ c.run = r
IsStoredBy(c, r) == IsPutBy(c, r) /\ c.answer = "ok"

\* the positions of calls at which run r stored an event of the given type
StoredAt(r, type) ==
    { p \in DOMAIN calls : IsStoredBy(calls[p], r)
                           /\ calls[p].item.event_type = type }

\* the events that run r stored, in order
EventsOf(r) == SelectSeq(calls, LAMBDA c : IsStoredBy(c, r))

\* the writes that run r attempted, in order
PutsOf(r)   == SelectSeq(calls, LAMBDA c : IsPutBy(c, r))

WriteRefused(r) == Len(EventsOf(r)) < Len(PutsOf(r))

\* the access check of run r ended with an exception that is no ClientError
ProcessingFailed(r) ==
    \E p \in DOMAIN calls : /\ calls[p].op = "head_object" /\ calls[p].run = r
                            /\ calls[p].answer = "EndpointConnectionError"

\* the run was started with the dispatcher's four parameters, for a task
\* definition that names the audit table
GivenAllInputs(r) ==
    LET e == runs[r].environ
    IN  /\ e.S3_BUCKET \notin {None, ""} /\ e.S3_KEY \notin {None, ""}
        /\ e.ORGANIZATION_ID \notin {None, ""} /\ e.FILE_SIZE \notin {None, ""}
        /\ e.AUDIT_TABLE_NAME \notin {None, ""}

MissingRequired(r) ==
    LET e == runs[r].environ
    IN  \E v \in {e.S3_BUCKET, e.S3_KEY, e.ORGANIZATION_ID, e.AUDIT_TABLE_NAME} :
           v \in {None, ""}

-----------------------------------------------------------------------------
(* C15, C19: the events and the exit status of one run *)

\* C15: a run given all four inputs, none of whose audit writes is refused,
\* has emitted when it ends a PROCESSING_IN_PROGRESS event first and then one
\* terminal event: PROCESSING_COMPLETE when the processing succeeded,
\* PROCESSING_ERROR when it failed.
C15_InProgressThenTerminal ==
    \A r \in DOMAIN runs : (Exited(r) /\ GivenAllInputs(r) /\ ~WriteRefused(r)) =>
        LET ev == EventsOf(r)
        IN  /\ Len(ev) = 2
            /\ ev[1].item.event_type = "PROCESSING_IN_PROGRESS"
            /\ ev[2].item.event_type = IF ProcessingFailed(r)
                                       THEN "PROCESSING_ERROR"
                                       ELSE "PROCESSING_COMPLETE"

CompleteSuccess(c) ==
    /\ c.item.event_type = "PROCESSING_COMPLETE" /\ c.item.status = "SUCCESS"

\* PROCESSING_COMPLETE/SUCCESS is stored only after the run stored
\* PROCESSING_IN_PROGRESS
CompleteAfterInProgress(r) ==
    \A p \in StoredAt(r, "PROCESSING_COMPLETE") :
        CompleteSuccess(calls[p])
           => \E q \in StoredAt(r, "PROCESSING_IN_PROGRESS") : q < p

\* a run that ends without having stored PROCESSING_COMPLETE/SUCCESS ends
\* with a status other than 0, and only such a run does
NonZeroUnlessComplete(r) ==
    Exited(r) =>
        /\ runs[r].exit \in {0, 1}
        /\ runs[r].exit = 0
             <=> \E p \in StoredAt(r, "PROCESSING_COMPLETE") : CompleteSuccess(calls[p])
        /\ runs[r].uncaught # None => runs[r].exit = 1

\* C19 as stated: PROCESSING_COMPLETE/SUCCESS only after PROCESSING_IN_PROGRESS
\* was stored; a run that does not store PROCESSING_COMPLETE/SUCCESS ends with
\* a non-zero status; a run missing a required input records PROCESSING_ERROR
\* and exits with status 1 without recording PROCESSING_IN_PROGRESS.
C19_MissingInputRecorded ==
    \A r \in DOMAIN runs :
        /\ CompleteAfterInProgress(r)
        /\ NonZeroUnlessComplete(r)
        /\ (Exited(r) /\ MissingRequired(r)) =>
              /\ StoredAt(r, "PROCESSING_ERROR") # {}
              /\ StoredAt(r, "PROCESSING_IN_PROGRESS") = {}
              /\ runs[r].exit = 1

\* C19 (amended): as stated for the first two parts.  A run missing a required
\* input attempts no write but that of PROCESSING_ERROR, under its
\* organization or "UNKNOWN", and ends with status 1; the event is stored
\* when the table is named and accepts the write, and otherwise the run ends
\* with the exception of the write, uncaught.
C19_MissingInputAttempted ==
    \A r \in DOMAIN runs :
        /\ CompleteAfterInProgress(r)
        /\ NonZeroUnlessComplete(r)
        /\ (Exited(r) /\ MissingRequired(r)) =>
              LET e    == runs[r].environ
                  puts == PutsOf(r)
              IN  /\ runs[r].exit = 1
                  /\ Len(puts) <= 1
                  /\ \A n \in DOMAIN puts :
                        /\ puts[n].item.event_type = "PROCESSING_ERROR"
                        /\ puts[n].item.status = "FAILURE"
                        /\ puts[n].item.pk =
                             <<"ORG#", IF e.ORGANIZATION_ID \in {None, ""}
                                       THEN "UNKNOWN" ELSE e.ORGANIZATION_ID>>
                  /\ e.AUDIT_TABLE_NAME \in {None, ""} => StoredAt(r, "PROCESSING_ERROR") = {}
                  /\ StoredAt(r, "PROCESSING_ERROR") = {} <=> runs[r].uncaught # None
                  /\ e.AUDIT_TABLE_NAME = None => puts = <<>>

\* a run without organization has stored PROCESSING_ERROR under "UNKNOWN" and
\* ended with status 1
C19_Witness ==
    \E r \in DOMAIN runs :
        /\ Exited(r) /\ runs[r].environ.ORGANIZATION_ID = None
        /\ \E p \in StoredAt(r, "PROCESSING_ERROR") :
              calls[p].item.pk = <<"ORG#", "UNKNOWN">>
        /\ runs[r].exit = 1 /\ runs[r].uncaught = None

-----------------------------------------------------------------------------
(* C13, C16: concurrent writers of the audit table *)

\* the successful put_item calls of all runs, in the order the table took them
Appended == SelectSeq(calls, LAMBDA c : c.op = "put_item" /\ c.answer = "ok")

\* C13: every event written gets a primary key of its own, so no append
\* replaces an event written before: the table holds every appended event
\* unchanged, and as many events as there were successful appends.
C13_AppendOnly ==
    /\ \A m, n \in DOMAIN Appended :
          m # n => PrimaryKey(Appended[m].item) # PrimaryKey(Appended[n].item)
    /\ \A n \in DOMAIN Appended :
          /\ PrimaryKey(Appended[n].item) \in DOMAIN table
          /\ table[PrimaryKey(Appended[n].item)] = Appended[n].item
    /\ Cardinality(DOMAIN table) = Len(Appended)

\* C16: the events of one organization carry timestamps that never decrease
\* in the order of their appends, whichever runs appended them.
C16_TimestampsMonotonic ==
    \A m, n \in DOMAIN Appended :
        (m < n /\ Appended[m].item.pk = Appended[n].item.pk)
            => Appended[m].item.timestamp <= Appended[n].item.timestamp

====
